---- MODULE Spec2Model ----
(***************************************************************************)
(* The update loop of feh-sim-seed (src/lib.rs): the Model, the Msg        *)
(* handlers of `update`, the message queue behind `orders.send_msg`, the   *)
(* time-boxed batch loop of Msg::Run, and `routes`.                        *)
(*                                                                         *)
(* banner.rs, goal.rs, sim.rs, counter.rs and query_string.rs are not part *)
(* of the sources at hand; what lib.rs calls in them is modelled from the  *)
(* specification (sections 3, 4.3-4.5 and 6) and marked as such.           *)
(***************************************************************************)
EXTENDS Integers, Sequences, FiniteSets, TLC

VARIABLES
    data,       \* model.data: the Counter, bucket i = trials that took i rolls
    banner,     \* model.banner
    goal,       \* model.goal
    curr_page,  \* model.curr_page
    queue,      \* messages sent with orders.send_msg, not yet processed
    pc,         \* position inside update: "idle", or "loop" inside Msg::Run
    sim,        \* Msg::Run's local `sim` (the banner and goal it was built from)
    limit,      \* Msg::Run's local `limit`
    elapsed,    \* perf.now() - start at the last reading of the clock
    lastBatch,  \* duration of the batch that ran last in this Run
    batches,    \* batches completed in this Run
    recorded,   \* history: trials this Run has recorded
    pushed,     \* the route pushed by Msg::Permalink, while the model is as it was
    routed,     \* the URL handed to `routes` for the dispatch in progress, and
                \* the observations the Counter held then
    panicked,   \* an index out of range aborted the program
    trials,     \* history: trials completed since the Counter was last cleared
    dataCfg,    \* history: the <<banner, goal>> pairs the counted trials ran with
    runs,       \* history: Runs that recorded trials since the last clear
    controls,   \* which group of the page's controls this session exercises in full
    last,       \* history: the message of the last call of update, where recorded
    conversion  \* a call of TryFrom<u8>: the target type, the value, the result

vars == <<data, banner, goal, curr_page, queue, pc, sim, limit, elapsed,
          lastBatch, batches, recorded, pushed, routed, panicked, trials, dataCfg,
          runs, controls, last, conversion>>

\* Option<T>: None is the empty sequence, Some(x) is <<x>>
None == <<>>
Some(x) == <<x>>
IsSome(o) == Len(o) = 1
Unwrap(o) == o[1]

-----------------------------------------------------------------------------
(* Bounds of the model *)

\* GoalPartAdd is offered while the goal has fewer parts than this
MaxParts == 2
\* roll_until_goal returns a roll count in 1..MaxRolls
MaxRolls == 2
\* a batch takes 1..MaxTicks ticks of the clock, or one more
MaxTicks == 2
\* milliseconds in a tick of the clock
TickMs == 200
\* Runs followed without a clear in between
MaxRuns == 2

-----------------------------------------------------------------------------
(* Color, lib.rs:36-43; `color as usize` indexes focus_sizes *)

Red == 0
Blue == 1
Green == 2
Colorless == 3
Colors == {Red, Blue, Green, Colorless}

\* `color as u8`: the discriminants follow the order of declaration
ColorAsU8(c) ==
    CASE c = Red -> 0 [] c = Blue -> 1 [] c = Green -> 2 [] c = Colorless -> 3

(* Pool, lib.rs:66-73 *)
Focus == 0
Fivestar == 1
Fourstar == 2
Threestar == 3
Pools == {Focus, Fivestar, Fourstar, Threestar}

\* `pool as u8`
PoolAsU8(p) ==
    CASE p = Focus -> 0 [] p = Fivestar -> 1 [] p = Fourstar -> 2 [] p = Threestar -> 3

\* the largest u8
MaxU8 == 255

\* Result<T, ()>: Err(()) is the empty sequence, Ok(x) is <<x>>
Ok(x) == <<x>>
Err == <<>>

\* Color::try_from with the value taken modulo the number of variants
ColorTryFrom_Wrapping(value) ==
    CASE value % 4 = 0 -> Ok(Red)
      [] value % 4 = 1 -> Ok(Blue)
      [] value % 4 = 2 -> Ok(Green)
      [] value % 4 = 3 -> Ok(Colorless)
      [] OTHER -> Err

\* <Color as TryFrom<u8>>::try_from, lib.rs:54-63
ColorTryFrom(value) ==
    CASE value = 0 -> Ok(Red)
      [] value = 1 -> Ok(Blue)
      [] value = 2 -> Ok(Green)
      [] value = 3 -> Ok(Colorless)
      [] OTHER -> Err

\* <Pool as TryFrom<u8>>::try_from, lib.rs:78-87
PoolTryFrom(value) ==
    CASE value = 0 -> Ok(Focus)
      [] value = 1 -> Ok(Fivestar)
      [] value = 2 -> Ok(Fourstar)
      [] value = 3 -> Ok(Threestar)
      [] OTHER -> Err

Pages == {"Main", "Help", "Changelog"}

\* Page::default()
DefaultPage == "Main"

\* lib.rs:194: the loop starts batches while fewer milliseconds have passed
Budget == 500
\* lib.rs:186: the size of the first batch
FirstLimit == 100

-----------------------------------------------------------------------------
(* Banner (banner.rs): focus_sizes: [u8; 4], starting_rates: (u8, u8) *)

Legendary == <<8, 0>>
LegendarySizes == <<3, 3, 3, 3>>

DefaultBanner == [focus_sizes |-> <<1, 1, 1, 1>>, starting_rates |-> <<3, 3>>]

\* focus_sizes[color as usize]
FocusSize(b, color) == b.focus_sizes[color + 1]

-----------------------------------------------------------------------------
(* Goal (goal.rs): kind, goals: Vec<GoalPart>, preset *)

GoalKinds == {"Any", "All"}
GoalPresets == {"Custom", "AnyFocus", "AllFocus", "RedFocus"}

GoalPart(color, quantity) == [unit_color |-> color, num_copies |-> quantity]

\* One copy of a focus unit of each of `colors` that the banner offers
RECURSIVE PartsOn(_, _)
PartsOn(b, colors) ==
    IF colors = <<>> THEN <<>>
    ELSE (IF FocusSize(b, Head(colors)) > 0
          THEN <<GoalPart(Head(colors), 1)>> ELSE <<>>)
         \o PartsOn(b, Tail(colors))

PresetColors(preset) ==
    IF preset = "RedFocus" THEN <<Red>> ELSE <<Red, Blue, Green, Colorless>>

PresetKind(preset) == IF preset = "AllFocus" THEN "All" ELSE "Any"

\* Goal::set_preset(&mut self, banner, preset)
set_preset(g, b, preset) ==
    IF preset = "Custom"
    THEN [g EXCEPT !.preset = preset]
    ELSE [kind |-> PresetKind(preset),
          goals |-> PartsOn(b, PresetColors(preset)),
          preset |-> preset]

\* Goal::is_available(&self, banner)
is_available(g, b) ==
    /\ Len(g.goals) > 0
    /\ \A i \in 1..Len(g.goals) : FocusSize(b, g.goals[i].unit_color) > 0

\* GoalPreset::is_available(&self, banner)
preset_is_available(preset, b) ==
    \/ preset = "Custom"
    \/ PartsOn(b, PresetColors(preset)) # <<>>

DefaultGoal ==
    set_preset([kind |-> "Any", goals |-> <<>>, preset |-> "AnyFocus"],
               DefaultBanner, "AnyFocus")

-----------------------------------------------------------------------------
(* Counter (counter.rs): a growable vector of occurrence counts *)

RECURSIVE Total(_)
Total(d) == IF d = <<>> THEN 0 ELSE Head(d) + Total(Tail(d))

\* the vector grown with empty buckets up to bucket `len`
RECURSIVE Grow(_, _)
Grow(d, len) == IF Len(d) >= len THEN d ELSE Grow(Append(d, 0), len)

\* model.data[result] += 1, n times over
Count(d, result, n) ==
    LET g == Grow(d, result)
    IN  SubSeq(g, 1, result - 1) \o <<g[result] + n>> \o SubSeq(g, result + 1, Len(g))

\* model.data.clear(), with the history of what the counts came from
clear == data' = <<>> /\ trials' = 0 /\ dataCfg' = {} /\ runs' = 0

-----------------------------------------------------------------------------
(* Permalink payloads.  bincode writes the fields in declaration order; an *)
(* enum is written as its variant's ordinal, a Vec as its length and then  *)
(* its elements.  base64 is taken to be lossless.                          *)

KindOrd(kind) == IF kind = "Any" THEN 0 ELSE 1
PresetOrd(preset) ==
    CASE preset = "Custom" -> 0 [] preset = "AnyFocus" -> 1
      [] preset = "AllFocus" -> 2 [] OTHER -> 3
KindAt(n) == CHOOSE k \in GoalKinds : KindOrd(k) = n
PresetAt(n) == CHOOSE p \in GoalPresets : PresetOrd(p) = n

RECURSIVE PartsBytes(_)
PartsBytes(parts) ==
    IF parts = <<>> THEN <<>>
    ELSE <<Head(parts).unit_color, Head(parts).num_copies>> \o PartsBytes(Tail(parts))

\* bincode::serialize(&model.banner)
BannerBytes(b) == b.focus_sizes \o b.starting_rates

\* bincode::serialize(&model.goal)
GoalBytes(g) ==
    <<KindOrd(g.kind), Len(g.goals)>> \o PartsBytes(g.goals) \o <<PresetOrd(g.preset)>>

\* bincode::deserialize of a Banner: None unless the bytes are a whole Banner
BannerFromBytes(s) ==
    IF Len(s) = 6
    THEN Some([focus_sizes |-> SubSeq(s, 1, 4), starting_rates |-> SubSeq(s, 5, 6)])
    ELSE None

\* query_string::get(url, "banner").and_then(Banner::from_query_string)
BannerFromQuery(q) == IF IsSome(q) THEN BannerFromBytes(Unwrap(q)) ELSE None

\* bincode::deserialize of a Goal: None unless the bytes are a whole Goal
GoalFromBytes(s) ==
    IF /\ Len(s) >= 3
       /\ s[1] \in {KindOrd(k) : k \in GoalKinds}
       /\ Len(s) = 3 + 2 * s[2]
       /\ \A i \in 1..s[2] : s[1 + 2 * i] \in Colors
       /\ s[Len(s)] \in {PresetOrd(p) : p \in GoalPresets}
    THEN Some([kind |-> KindAt(s[1]),
               goals |-> [i \in 1..s[2] |-> GoalPart(s[1 + 2 * i], s[2 + 2 * i])],
               preset |-> PresetAt(s[Len(s)])])
    ELSE None

\* query_string::get(url, "goal").and_then(Goal::from_query_string)
GoalFromQuery(q) == IF IsSome(q) THEN GoalFromBytes(Unwrap(q)) ELSE None

\* A URL: path.get(1) ("" when the path ends before it), and the values of the
\* query's "banner" and "goal" keys (None when the key is absent)
Url(path1, bannerQ, goalQ) == [path1 |-> path1, banner |-> bannerQ, goal |-> goalQ]

\* The URL Msg::Permalink pushes, lib.rs:239-243
PermalinkUrl(b, g) == Url("", Some(BannerBytes(b)), Some(GoalBytes(g)))

-----------------------------------------------------------------------------
(* Msg, lib.rs:113-129 *)

Msg(type) == [type |-> type]
MsgBannerFocusSizeChange(color, quantity) ==
    [type |-> "BannerFocusSizeChange", color |-> color, quantity |-> quantity]
MsgBannerRateChange(rates) == [type |-> "BannerRateChange", rates |-> rates]
MsgBannerSet(b) == [type |-> "BannerSet", banner |-> b]
MsgGoalPresetChange(preset) == [type |-> "GoalPresetChange", preset |-> preset]
MsgGoalPartColorChange(index, color) ==
    [type |-> "GoalPartColorChange", index |-> index, color |-> color]
MsgGoalPartQuantityChange(index, quantity) ==
    [type |-> "GoalPartQuantityChange", index |-> index, quantity |-> quantity]
MsgGoalPartAdd(color, quantity) ==
    [type |-> "GoalPartAdd", color |-> color, quantity |-> quantity]
MsgGoalKindChange(kind) == [type |-> "GoalKindChange", kind |-> kind]
MsgGoalSet(g) == [type |-> "GoalSet", goal |-> g]
MsgPageChange(page) == [type |-> "PageChange", page |-> page]
MsgMultiple(messages) == [type |-> "Multiple", messages |-> messages]

\* routes with a payload that does not decode replaced by the default value
routes_DefaultOnFailure(url) ==
    MsgMultiple(
        <<MsgPageChange(CASE url.path1 = "help" -> "Help"
                          [] url.path1 = "changelog" -> "Changelog"
                          [] OTHER -> "Main")>>
        \o (IF IsSome(BannerFromQuery(url.banner))
            THEN <<MsgBannerSet(Unwrap(BannerFromQuery(url.banner)))>>
            ELSE IF IsSome(url.banner) THEN <<MsgBannerSet(DefaultBanner)>> ELSE <<>>)
        \o (IF IsSome(GoalFromQuery(url.goal))
            THEN <<MsgGoalSet(Unwrap(GoalFromQuery(url.goal)))>>
            ELSE IF IsSome(url.goal) THEN <<MsgGoalSet(DefaultGoal)>> ELSE <<>>))

\* routes(url), lib.rs:295-313
routes(url) ==
    MsgMultiple(
        <<MsgPageChange(CASE url.path1 = "help" -> "Help"
                          [] url.path1 = "changelog" -> "Changelog"
                          [] OTHER -> "Main")>>
        \o (IF IsSome(BannerFromQuery(url.banner))
            THEN <<MsgBannerSet(Unwrap(BannerFromQuery(url.banner)))>> ELSE <<>>)
        \o (IF IsSome(GoalFromQuery(url.goal))
            THEN <<MsgGoalSet(Unwrap(GoalFromQuery(url.goal)))>> ELSE <<>>))

-----------------------------------------------------------------------------
(* What the page and the browser can send *)

(* A session exercises one group of controls in full and the others with   *)
(* one or two values each: the banner controls ("banner"), the goal        *)
(* controls ("goal"), the Run button and the clock ("run"), or the address *)
(* bar ("url").                                                            *)
ControlGroups == {"banner", "goal", "run", "url"}

(* The "edits" session exercises the goal controls like "goal", the        *)
(* "orders" session the address bar like "url"; both keep the message of   *)
(* each update call in `last`.                                             *)
Recording == {"edits", "orders"}
GoalGroups == {"goal", "edits"}
UrlGroups == {"url", "orders"}

\* colors and quantities the focus-size controls send
FocusColors == IF controls = "banner" THEN Colors ELSE {Red}
FocusQuantities == IF controls = "banner" THEN {0, 3} ELSE {0}
\* rates the rate control sends
Rates == IF controls = "banner" THEN {<<3, 3>>, Legendary} ELSE {Legendary}
\* presets and kinds the goal controls send
PresetChoices == IF controls \in GoalGroups THEN GoalPresets ELSE {"Custom", "RedFocus"}
KindChoices == IF controls \in GoalGroups THEN GoalKinds ELSE {"All"}
\* parts the add control sends
AddColors == IF controls \in GoalGroups THEN {Red, Blue} ELSE {Red}
AddQuantities == IF controls \in GoalGroups THEN {0, 1} ELSE {1}
\* what the controls of a part send
Indexes == IF controls \in GoalGroups THEN 0..MaxParts ELSE {0}
ChangeColors == IF controls \in GoalGroups THEN {Red, Blue} ELSE {Blue}
ChangeQuantities == IF controls \in GoalGroups THEN {0, 1} ELSE {0}
\* the rolls a trial takes (Sim::roll_until_goal)
Rolls == IF controls = "run" THEN 1..MaxRolls ELSE {1}
\* the ticks of the clock a batch takes
Ticks == IF controls = "run" THEN 1..MaxTicks ELSE {MaxTicks + 1}

\* URLs followed besides the pushed permalink: no query; a truncated banner
\* with a goal; a banner with a goal naming a color that does not exist; a
\* banner whose rates are the legendary ones and whose sizes are not
TestUrls ==
    { Url("help", None, None),
      Url("changelog", Some(<<3, 0, 3>>), Some(<<1, 1, Blue, 2, 0>>)),
      Url("", Some(<<0, 3, 3, 3, 3, 3>>), Some(<<0, 1, 4, 1, 0>>)),
      Url("", Some(<<1, 1, 1, 1, 8, 0>>), None) }

Urls ==
    (IF controls \in UrlGroups THEN TestUrls ELSE {})
    \cup {pushed[i].url : i \in 1..Len(pushed)}

-----------------------------------------------------------------------------
(* The state after seed::App::build(Model::default(), update, view) *)

Start(groups) ==
    /\ data = <<>>
    /\ banner = DefaultBanner
    /\ goal = DefaultGoal
    /\ curr_page = DefaultPage
    /\ queue = <<>>
    /\ pc = "idle"
    /\ sim = None
    /\ limit = 0
    /\ elapsed = 0
    /\ lastBatch = 0
    /\ batches = 0
    /\ recorded = 0
    /\ pushed = None
    /\ routed = None
    /\ panicked = FALSE
    /\ trials = 0
    /\ dataCfg = {}
    /\ runs = 0
    /\ controls \in groups
    /\ last = None
    /\ conversion = None

Init == Start(ControlGroups)

-----------------------------------------------------------------------------
(* Dispatch: seed calls update with the message at the head of the queue;  *)
(* with the queue empty, with the next event of the page                   *)

Idle == pc = "idle" /\ ~panicked

Incoming(type, events) ==
    IF ~Idle THEN {}
    ELSE IF queue # <<>>
         THEN (IF Head(queue).type = type THEN {Head(queue)} ELSE {})
         ELSE events

Rest == IF queue = <<>> THEN <<>> ELSE Tail(queue)

\* an event of the page ends the dispatch of the routed URL, and the model
\* moves on from the one the permalink was made of
Navigation ==
    IF queue = <<>>
    THEN pushed' = None /\ routed' = None
    ELSE UNCHANGED <<pushed, routed>>

\* what a session is set up with and an update call never changes
Session == <<controls, conversion>>

\* the message of an update call, in the sessions that record it
Seen(m) == IF controls \in Recording THEN Some(m) ELSE None

RunLocals == <<pc, sim, limit, elapsed, lastBatch, batches, recorded>>
History == <<trials, dataCfg, runs>>

\* index out of range: the handler panics before it changes anything
Panic ==
    /\ panicked' = TRUE
    /\ UNCHANGED <<data, banner, goal, curr_page, queue, RunLocals, pushed,
                   routed, History, Session>>

-----------------------------------------------------------------------------
(* update, lib.rs:131-247 *)

Null ==
    \E m \in Incoming("Null", {Msg("Null")}) :
        /\ last' = Seen(m)
        /\ queue' = Rest
        /\ Navigation
        /\ UNCHANGED <<data, banner, goal, curr_page, RunLocals, panicked, Session, History>>

Multiple ==
    \E m \in Incoming("Multiple", {}) :
        /\ last' = Seen(m)
        /\ queue' = Rest \o m.messages
        /\ UNCHANGED <<data, banner, goal, curr_page, RunLocals, pushed, routed,
                       panicked, Session, History>>

BannerFocusSizeChange ==
    \E m \in Incoming("BannerFocusSizeChange",
                      {MsgBannerFocusSizeChange(c, q) : c \in FocusColors, q \in FocusQuantities}) :
        /\ last' = Seen(m)
        /\ banner' = [banner EXCEPT !.focus_sizes[m.color + 1] = m.quantity]
        /\ clear
        /\ queue' = Rest
        /\ Navigation
        /\ UNCHANGED <<goal, curr_page, RunLocals, panicked, Session>>

BannerRateChange ==
    \E m \in Incoming("BannerRateChange", {MsgBannerRateChange(r) : r \in Rates}) :
        /\ last' = Seen(m)
        /\ banner' = [starting_rates |-> m.rates,
                      focus_sizes |-> IF m.rates = Legendary
                                      THEN LegendarySizes ELSE banner.focus_sizes]
        /\ clear
        /\ queue' = Rest
        /\ Navigation
        /\ UNCHANGED <<goal, curr_page, RunLocals, panicked, Session>>

\* BannerSet without the message for the colorless focus size
BannerSet_SkipsColorless ==
    \E m \in Incoming("BannerSet", {}) :
        /\ last' = Seen(m)
        /\ queue' = Rest \o
              <<MsgBannerFocusSizeChange(Red, m.banner.focus_sizes[1]),
                MsgBannerFocusSizeChange(Blue, m.banner.focus_sizes[2]),
                MsgBannerFocusSizeChange(Green, m.banner.focus_sizes[3]),
                MsgBannerRateChange(m.banner.starting_rates)>>
        /\ UNCHANGED <<data, banner, goal, curr_page, RunLocals, pushed, routed,
                       panicked, Session, History>>

BannerSet ==
    \E m \in Incoming("BannerSet", {}) :
        /\ last' = Seen(m)
        /\ queue' = Rest \o
              <<MsgBannerFocusSizeChange(Red, m.banner.focus_sizes[1]),
                MsgBannerFocusSizeChange(Blue, m.banner.focus_sizes[2]),
                MsgBannerFocusSizeChange(Green, m.banner.focus_sizes[3]),
                MsgBannerFocusSizeChange(Colorless, m.banner.focus_sizes[4]),
                MsgBannerRateChange(m.banner.starting_rates)>>
        /\ UNCHANGED <<data, banner, goal, curr_page, RunLocals, pushed, routed,
                       panicked, Session, History>>

\* GoalPresetChange without the test of lib.rs:203
GoalPresetChange_AlwaysSets ==
    \E m \in Incoming("GoalPresetChange", {MsgGoalPresetChange(p) : p \in PresetChoices}) :
        /\ last' = Seen(m)
        /\ goal' = set_preset(goal, banner, m.preset)
        /\ clear
        /\ queue' = Rest
        /\ Navigation
        /\ UNCHANGED <<banner, curr_page, RunLocals, panicked, Session>>

GoalPresetChange ==
    \E m \in Incoming("GoalPresetChange", {MsgGoalPresetChange(p) : p \in PresetChoices}) :
        /\ last' = Seen(m)
        /\ goal' = IF preset_is_available(m.preset, banner)
                   THEN set_preset(goal, banner, m.preset) ELSE goal
        /\ clear
        /\ queue' = Rest
        /\ Navigation
        /\ UNCHANGED <<banner, curr_page, RunLocals, panicked, Session>>

GoalPartColorChange ==
    \E m \in Incoming("GoalPartColorChange",
                      {MsgGoalPartColorChange(i, c) : i \in Indexes, c \in ChangeColors}) :
        /\ last' = Seen(m)
        /\ IF m.index < Len(goal.goals)
           THEN /\ goal' = [goal EXCEPT !.goals[m.index + 1].unit_color = m.color]
                /\ clear
                /\ queue' = Rest
                /\ Navigation
                /\ UNCHANGED <<banner, curr_page, RunLocals, panicked, Session>>
           ELSE Panic

\* Vec::remove(index)
Remove(seq, index) == SubSeq(seq, 1, index) \o SubSeq(seq, index + 2, Len(seq))

\* GoalPartQuantityChange with a quantity of 0 removing the last part
GoalPartQuantityChange_RemovesLast ==
    \E m \in Incoming("GoalPartQuantityChange",
                      {MsgGoalPartQuantityChange(i, q) : i \in Indexes, q \in ChangeQuantities}) :
        /\ last' = Seen(m)
        /\ IF m.index < Len(goal.goals)
           THEN /\ goal' = IF m.quantity = 0
                           THEN [goal EXCEPT !.goals = SubSeq(goal.goals, 1, Len(goal.goals) - 1)]
                           ELSE [goal EXCEPT !.goals[m.index + 1].num_copies = m.quantity]
                /\ clear
                /\ queue' = Rest
                /\ Navigation
                /\ UNCHANGED <<banner, curr_page, RunLocals, panicked, Session>>
           ELSE Panic

GoalPartQuantityChange ==
    \E m \in Incoming("GoalPartQuantityChange",
                      {MsgGoalPartQuantityChange(i, q) : i \in Indexes, q \in ChangeQuantities}) :
        /\ last' = Seen(m)
        /\ IF m.index < Len(goal.goals)
           THEN /\ goal' = IF m.quantity = 0
                           THEN [goal EXCEPT !.goals = Remove(goal.goals, m.index)]
                           ELSE [goal EXCEPT !.goals[m.index + 1].num_copies = m.quantity]
                /\ clear
                /\ queue' = Rest
                /\ Navigation
                /\ UNCHANGED <<banner, curr_page, RunLocals, panicked, Session>>
           ELSE Panic

GoalPartAdd ==
    \E m \in Incoming("GoalPartAdd",
                      {MsgGoalPartAdd(c, q) : c \in AddColors, q \in AddQuantities}) :
        /\ last' = Seen(m)
        /\ Len(goal.goals) < MaxParts
        /\ goal' = [goal EXCEPT !.goals = Append(goal.goals, GoalPart(m.color, m.quantity))]
        /\ clear
        /\ queue' = Rest
        /\ Navigation
        /\ UNCHANGED <<banner, curr_page, RunLocals, panicked, Session>>

\* GoalKindChange without model.data.clear()
GoalKindChange_KeepsData ==
    \E m \in Incoming("GoalKindChange", {MsgGoalKindChange(k) : k \in KindChoices}) :
        /\ last' = Seen(m)
        /\ goal' = [goal EXCEPT !.kind = m.kind]
        /\ queue' = Rest
        /\ Navigation
        /\ UNCHANGED <<data, banner, curr_page, RunLocals, panicked, Session, History>>

GoalKindChange ==
    \E m \in Incoming("GoalKindChange", {MsgGoalKindChange(k) : k \in KindChoices}) :
        /\ last' = Seen(m)
        /\ goal' = [goal EXCEPT !.kind = m.kind]
        /\ clear
        /\ queue' = Rest
        /\ Navigation
        /\ UNCHANGED <<banner, curr_page, RunLocals, panicked, Session>>

\* GoalSet with the goal re-derived from its preset on the banner of the moment
GoalSet_Rederives ==
    \E m \in Incoming("GoalSet", {}) :
        /\ last' = Seen(m)
        /\ goal' = set_preset(m.goal, banner, m.goal.preset)
        /\ clear
        /\ queue' = Rest
        /\ Navigation
        /\ UNCHANGED <<banner, curr_page, RunLocals, panicked, Session>>

GoalSet ==
    \E m \in Incoming("GoalSet", {}) :
        /\ last' = Seen(m)
        /\ goal' = m.goal
        /\ clear
        /\ queue' = Rest
        /\ Navigation
        /\ UNCHANGED <<banner, curr_page, RunLocals, panicked, Session>>

\* PageChange with model.data.clear()
PageChange_Clears ==
    \E m \in Incoming("PageChange", {}) :
        /\ last' = Seen(m)
        /\ curr_page' = m.page
        /\ clear
        /\ queue' = Rest
        /\ Navigation
        /\ UNCHANGED <<banner, goal, RunLocals, panicked, Session>>

PageChange ==
    \E m \in Incoming("PageChange", {}) :
        /\ last' = Seen(m)
        /\ curr_page' = m.page
        /\ queue' = Rest
        /\ Navigation
        /\ UNCHANGED <<data, banner, goal, RunLocals, panicked, Session, History>>

Permalink ==
    \E m \in Incoming("Permalink", {Msg("Permalink")}) :
        /\ last' = Seen(m)
        /\ pushed' = Some([url |-> PermalinkUrl(banner, goal),
                           banner |-> banner, goal |-> goal])
        /\ routed' = IF queue = <<>> THEN None ELSE routed
        /\ queue' = Rest
        /\ UNCHANGED <<data, banner, goal, curr_page, RunLocals, panicked, Session, History>>

-----------------------------------------------------------------------------
(* Msg::Run, lib.rs:179-201 *)

\* Run with the simulator built before the goal is re-derived
Run_SimBeforePreset ==
    \E m \in Incoming("Run", {Msg("Run")}) :
        /\ last' = Seen(m)
        /\ goal' = set_preset(goal, banner, goal.preset)
        /\ IF ~is_available(goal', banner)
           THEN UNCHANGED RunLocals
           ELSE /\ runs < MaxRuns
                /\ pc' = "loop"
                /\ sim' = Some([banner |-> banner, goal |-> goal])
                /\ limit' = FirstLimit
                /\ elapsed' = 0
                /\ lastBatch' = 0
                /\ batches' = 0
                /\ recorded' = 0
        /\ queue' = Rest
        /\ Navigation
        /\ UNCHANGED <<data, banner, curr_page, panicked, Session, History>>

\* Run with the availability checked before the goal is re-derived
Run_CheckBeforePreset ==
    \E m \in Incoming("Run", {Msg("Run")}) :
        /\ last' = Seen(m)
        /\ IF ~is_available(goal, banner)
           THEN UNCHANGED <<goal, RunLocals>>
           ELSE /\ goal' = set_preset(goal, banner, goal.preset)
                /\ runs < MaxRuns
                /\ pc' = "loop"
                /\ sim' = Some([banner |-> banner, goal |-> goal'])
                /\ limit' = FirstLimit
                /\ elapsed' = 0
                /\ lastBatch' = 0
                /\ batches' = 0
                /\ recorded' = 0
        /\ queue' = Rest
        /\ Navigation
        /\ UNCHANGED <<data, banner, curr_page, panicked, Session, History>>

\* Run without the return of lib.rs:182-184
Run_NoAvailabilityCheck ==
    \E m \in Incoming("Run", {Msg("Run")}) :
        /\ last' = Seen(m)
        /\ goal' = set_preset(goal, banner, goal.preset)
        /\ runs < MaxRuns
        /\ pc' = "loop"
        /\ sim' = Some([banner |-> banner, goal |-> goal'])
        /\ limit' = FirstLimit
        /\ elapsed' = 0
        /\ lastBatch' = 0
        /\ batches' = 0
        /\ recorded' = 0
        /\ queue' = Rest
        /\ Navigation
        /\ UNCHANGED <<data, banner, curr_page, panicked, Session, History>>

\* lib.rs:181-188: re-derive the goal, return when it is not available,
\* otherwise build the simulator and read the clock
Run ==
    \E m \in Incoming("Run", {Msg("Run")}) :
        /\ last' = Seen(m)
        /\ goal' = set_preset(goal, banner, goal.preset)
        /\ IF ~is_available(goal', banner)
           THEN UNCHANGED RunLocals
           ELSE /\ runs < MaxRuns
                /\ pc' = "loop"
                /\ sim' = Some([banner |-> banner, goal |-> goal'])
                /\ limit' = FirstLimit
                /\ elapsed' = 0
                /\ lastBatch' = 0
                /\ batches' = 0
                /\ recorded' = 0
        /\ queue' = Rest
        /\ Navigation
        /\ UNCHANGED <<data, banner, curr_page, panicked, Session, History>>

\* the batch loop with a trial counted in its bucket and in the next one too
RunBatch_CountsTwice ==
    /\ pc = "loop"
    /\ elapsed < Budget
    /\ \E r \in Rolls, ticks \in Ticks :
        /\ data' = Count(Count(data, r, limit), r + 1, limit)
        /\ trials' = trials + limit
        /\ dataCfg' = dataCfg \cup {Unwrap(sim)}
        /\ elapsed' = elapsed + ticks * TickMs
        /\ lastBatch' = ticks * TickMs
    /\ limit' = limit * 2
    /\ batches' = batches + 1
    /\ recorded' = recorded + limit
    /\ runs' = IF batches = 0 THEN runs + 1 ELSE runs
    /\ UNCHANGED <<banner, goal, curr_page, queue, pc, sim, pushed, routed, panicked,
                   Session, last>>

\* the batch loop without `limit *= 2`
RunBatch_NoDoubling ==
    /\ pc = "loop"
    /\ elapsed < Budget
    /\ \E r \in Rolls, ticks \in Ticks :
        /\ data' = Count(data, r, limit)
        /\ trials' = trials + limit
        /\ dataCfg' = dataCfg \cup {Unwrap(sim)}
        /\ elapsed' = elapsed + ticks * TickMs
        /\ lastBatch' = ticks * TickMs
    /\ limit' = limit
    /\ batches' = batches + 1
    /\ recorded' = recorded + limit
    /\ runs' = IF batches = 0 THEN runs + 1 ELSE runs
    /\ UNCHANGED <<banner, goal, curr_page, queue, pc, sim, pushed, routed, panicked,
                   Session, last>>

\* the batch loop with `start` read again before every batch, so that the
\* condition sees the duration of the last batch only
RunBatch_ClockRestarted ==
    /\ pc = "loop"
    /\ lastBatch < Budget
    /\ \E r \in Rolls, ticks \in Ticks :
        /\ data' = Count(data, r, limit)
        /\ trials' = trials + limit
        /\ dataCfg' = dataCfg \cup {Unwrap(sim)}
        /\ elapsed' = elapsed + ticks * TickMs
        /\ lastBatch' = ticks * TickMs
    /\ limit' = limit * 2
    /\ batches' = batches + 1
    /\ recorded' = recorded + limit
    /\ runs' = IF batches = 0 THEN runs + 1 ELSE runs
    /\ UNCHANGED <<banner, goal, curr_page, queue, pc, sim, pushed, routed, panicked,
                   Session, last>>

\* lib.rs:194-199: the clock read below the budget, then `limit` trials (in
\* the model the trials of one batch all take the same number of rolls),
\* then `limit` doubled; the batch took `ticks` ticks of the clock
RunBatch ==
    /\ pc = "loop"
    /\ elapsed < Budget
    /\ \E r \in Rolls, ticks \in Ticks :
        /\ data' = Count(data, r, limit)
        /\ trials' = trials + limit
        /\ dataCfg' = dataCfg \cup {Unwrap(sim)}
        /\ elapsed' = elapsed + ticks * TickMs
        /\ lastBatch' = ticks * TickMs
    /\ limit' = limit * 2
    /\ batches' = batches + 1
    /\ recorded' = recorded + limit
    /\ runs' = IF batches = 0 THEN runs + 1 ELSE runs
    /\ UNCHANGED <<banner, goal, curr_page, queue, pc, sim, pushed, routed, panicked,
                   Session, last>>

\* the loop left only when the clock reads the budget exactly
RunReturn_ExactlyAtBudget ==
    /\ pc = "loop"
    /\ elapsed = Budget
    /\ pc' = "idle"
    /\ sim' = None
    /\ limit' = 0
    /\ elapsed' = 0
    /\ lastBatch' = 0
    /\ batches' = 0
    /\ recorded' = 0
    /\ UNCHANGED <<data, banner, goal, curr_page, queue, pushed, routed, panicked, Session,
                   History, last>>

\* lib.rs:194, 201: the clock read at or over the budget; Run returns
RunReturn ==
    /\ pc = "loop"
    /\ ~(elapsed < Budget)
    /\ pc' = "idle"
    /\ sim' = None
    /\ limit' = 0
    /\ elapsed' = 0
    /\ lastBatch' = 0
    /\ batches' = 0
    /\ recorded' = 0
    /\ UNCHANGED <<data, banner, goal, curr_page, queue, pushed, routed, panicked, Session,
                   History, last>>

-----------------------------------------------------------------------------
(* Routing, lib.rs:295-320 *)

\* the browser moves to a URL: seed calls routes and sends the message
Route ==
    /\ Idle
    /\ queue = <<>>
    /\ \E url \in Urls :
        /\ queue' = <<routes(url)>>
        /\ routed' = Some([url |-> url, observations |-> Total(data)])
    /\ UNCHANGED <<data, banner, goal, curr_page, RunLocals, pushed, panicked, Session, History,
                   last>>

\* render(): the page is loaded at a URL, with a Model::default()
render ==
    /\ Idle
    /\ queue = <<>>
    /\ \E url \in Urls :
        /\ queue' = <<routes(url)>>
        /\ routed' = Some([url |-> url, observations |-> 0])
    /\ data' = <<>>
    /\ banner' = DefaultBanner
    /\ goal' = DefaultGoal
    /\ curr_page' = DefaultPage
    /\ trials' = 0
    /\ dataCfg' = {}
    /\ runs' = 0
    /\ last' = None
    /\ UNCHANGED <<RunLocals, pushed, panicked, Session>>

-----------------------------------------------------------------------------
(* Calls of TryFrom<u8>, lib.rs:51-88: any u8, for either type *)

Model == <<data, banner, goal, curr_page, queue, RunLocals, pushed, routed, panicked,
           History, controls, last>>

try_from_Color ==
    /\ \E value \in 0..MaxU8 :
        conversion' = Some([target |-> "Color", value |-> value,
                            result |-> ColorTryFrom(value)])
    /\ UNCHANGED Model

try_from_Pool ==
    /\ \E value \in 0..MaxU8 :
        conversion' = Some([target |-> "Pool", value |-> value,
                            result |-> PoolTryFrom(value)])
    /\ UNCHANGED Model

NextTryFrom ==
    \/ try_from_Color
    \/ try_from_Pool

SpecTryFrom == Start({"banner"}) /\ [][NextTryFrom]_vars

-----------------------------------------------------------------------------
Next ==
    \/ Null
    \/ Multiple
    \/ BannerFocusSizeChange
    \/ BannerRateChange
    \/ BannerSet
    \/ Run
    \/ RunBatch
    \/ RunReturn
    \/ GoalPresetChange
    \/ GoalPartColorChange
    \/ GoalPartQuantityChange
    \/ GoalPartAdd
    \/ GoalKindChange
    \/ GoalSet
    \/ PageChange
    \/ Permalink
    \/ Route
    \/ render

Spec == Init /\ [][Next]_vars

\* BannerSet with its five messages processed before the messages that were
\* already waiting (the order the queue does not take)
BannerSetFirst ==
    \E m \in Incoming("BannerSet", {}) :
        /\ last' = Seen(m)
        /\ queue' =
              <<MsgBannerFocusSizeChange(Red, m.banner.focus_sizes[1]),
                MsgBannerFocusSizeChange(Blue, m.banner.focus_sizes[2]),
                MsgBannerFocusSizeChange(Green, m.banner.focus_sizes[3]),
                MsgBannerFocusSizeChange(Colorless, m.banner.focus_sizes[4]),
                MsgBannerRateChange(m.banner.starting_rates)>> \o Rest
        /\ UNCHANGED <<data, banner, goal, curr_page, RunLocals, pushed, routed,
                       panicked, Session, History>>

\* The program with either order of BannerSet's messages and the rest
NextEitherOrder ==
    \/ Next
    \/ BannerSetFirst

SpecEitherOrder == Start({"orders"}) /\ [][NextEitherOrder]_vars

\* The program in a session that records the message of each update call
SpecEdits == Start({"edits"}) /\ [][Next]_vars

\* The Run button, with the controls that make a goal unavailable.  update
\* runs to its end once called: the loop goes on until its condition fails
NextRun ==
    \/ Run
    \/ RunBatch
    \/ RunReturn
    \/ BannerFocusSizeChange
    \/ GoalPresetChange

SpecRun == Init /\ [][NextRun]_vars /\ WF_vars(RunBatch) /\ WF_vars(RunReturn)

\* Only the controls of the goal's parts are used
NextParts ==
    \/ GoalPartAdd
    \/ GoalPartQuantityChange
    \/ GoalPartColorChange

SpecParts == Init /\ [][NextParts]_vars

-----------------------------------------------------------------------------
(* Properties *)

Config == [banner |-> banner, goal |-> goal]

\* a configuration message is being processed
ConfigMsg ==
    \/ BannerFocusSizeChange
    \/ BannerRateChange
    \/ GoalPresetChange
    \/ GoalPartColorChange
    \/ GoalPartQuantityChange
    \/ GoalPartAdd
    \/ GoalKindChange
    \/ GoalSet

\* the dispatch of the routed URL is over
Settled == Idle /\ queue = <<>> /\ IsSome(routed)

RoutedBanner == BannerFromQuery(Unwrap(routed).url.banner)
RoutedGoal == GoalFromQuery(Unwrap(routed).url.goal)

LegendaryLayout(b) == b.starting_rates = Legendary => b.focus_sizes = LegendarySizes

C2_NoStaleMixing ==
    /\ dataCfg \subseteq {Config}
    /\ Total(data) > 0 => dataCfg # {}

\* C2 witness: a second Run re-derived the goal of a preset and added its
\* trials to those of the first.
C2_Witness ==
    /\ runs = 2
    /\ pc = "loop"
    /\ batches > 0
    /\ goal.preset # "Custom"
    /\ Total(data) > FirstLimit

\* C3 (availability gating): a Run whose re-derived goal is not available on
\* the banner builds no simulator, runs no trial and leaves the histogram as
\* it is; trials are run only while the goal is available on the banner.
C3_AvailabilityGating ==
    [][ /\ (Run /\ ~is_available(goal', banner))
            => (pc' = "idle" /\ sim' = None /\ data' = data /\ trials' = trials)
        /\ (trials' > trials \/ (data' # data /\ data' # <<>>))
            => (IsSome(sim) /\ Unwrap(sim) = Config /\ is_available(goal, banner))
        /\ IsSome(sim') => is_available(goal', banner') ]_vars

\* C3 witness: Run re-derived the goal of the preset for red focus units on
\* a banner without any, found it not available and returned.
C3_Witness ==
    /\ Idle
    /\ sim = None
    /\ goal.preset = "RedFocus"
    /\ goal.goals = <<>>
    /\ ~is_available(goal, banner)

\* C4 (histogram conservation): the bucket counts add up to the number of
\* trials completed since the histogram was last cleared, across Runs.
C4_Conservation == Total(data) = trials

\* C4 witness: two Runs in a row, both counted, in more than one bucket.
C4_Witness ==
    /\ runs = 2
    /\ Idle
    /\ Len(data) > 1
    /\ data[1] > 0
    /\ data[Len(data)] > 0
    /\ Total(data) >= 2 * FirstLimit

\* C5 as claimed: once BannerSet{b} and all the messages it emits have been
\* processed, the model's banner is b and the histogram is empty, for any b.
C5_AnyBannerReplaced ==
    (Settled /\ IsSome(RoutedBanner))
        => (banner = Unwrap(RoutedBanner) /\ data = <<>>)

\* C5 as amended: the same, for every b that has the legendary sizes
\* [3,3,3,3] when its rates are the legendary (8,0).
C5_BannerReplaced ==
    (Settled /\ IsSome(RoutedBanner) /\ LegendaryLayout(Unwrap(RoutedBanner)))
        => (banner = Unwrap(RoutedBanner) /\ data = <<>>)

\* C5 witness: a banner from a URL replaced another one, and observations
\* were discarded.
C5_Witness ==
    /\ Settled
    /\ IsSome(RoutedBanner)
    /\ banner = Unwrap(RoutedBanner)
    /\ banner.focus_sizes = <<0, 3, 3, 3>>
    /\ Unwrap(routed).observations > 0
    /\ data = <<>>

\* C6 as claimed (legendary layout): whenever the banner's rates are (8,0)
\* its focus sizes are [3,3,3,3].
C6_LegendaryLayout == LegendaryLayout(banner)

\* C7 as claimed (positive copy counts): no part of the goal has zero copies.
C7_PositiveCopies == \A i \in 1..Len(goal.goals) : goal.goals[i].num_copies > 0

\* C8 as claimed (permalink round trip): once the URL pushed by Permalink has
\* been routed and its messages processed, banner and goal are what they
\* were when the permalink was made.
C8_PermalinkRoundTrip ==
    (Settled /\ IsSome(pushed) /\ Unwrap(routed).url = Unwrap(pushed).url)
        => (banner = Unwrap(pushed).banner /\ goal = Unwrap(pushed).goal)

\* the messages waiting in the queue that set the banner
BannerMsgs ==
    {i \in 1..Len(queue) :
        queue[i].type \in {"BannerSet", "BannerFocusSizeChange", "BannerRateChange"}}
GoalMsgs == {i \in 1..Len(queue) : queue[i].type = "GoalSet"}
InMultiple(type) ==
    /\ queue # <<>>
    /\ Head(queue).type = "Multiple"
    /\ \E i \in 1..Len(Head(queue).messages) : Head(queue).messages[i].type = type

\* a step of the dispatch of the routed URL
Dispatching == IsSome(routed) /\ routed' = routed /\ queue # <<>>

\* C9 as claimed: when the banner (resp. goal) payload is missing or does not
\* decode, no step of the dispatch changes the banner (resp. goal) or the
\* histogram.
C9_MalformedLeavesAll ==
    [][ /\ (Dispatching /\ ~IsSome(RoutedBanner)) => (banner' = banner /\ data' = data)
        /\ (Dispatching /\ ~IsSome(RoutedGoal)) => (goal' = goal /\ data' = data) ]_vars

\* C9 as amended: when the banner (resp. goal) payload is missing or does not
\* decode, routes emits no BannerSet (resp. GoalSet) and no step of the
\* dispatch changes the banner (resp. goal); the histogram is unchanged when
\* neither payload decodes; and the payload that does decode is applied.
C9_MalformedIsNoOp ==
    [][ /\ (Dispatching /\ ~IsSome(RoutedBanner))
            => (banner' = banner /\ BannerMsgs = {} /\ ~InMultiple("BannerSet"))
        /\ (Dispatching /\ ~IsSome(RoutedGoal))
            => (goal' = goal /\ GoalMsgs = {} /\ ~InMultiple("GoalSet"))
        /\ (Dispatching /\ ~IsSome(RoutedBanner) /\ ~IsSome(RoutedGoal))
            => data' = data
        /\ (Dispatching /\ queue' = <<>> /\ IsSome(RoutedGoal))
            => goal' = Unwrap(RoutedGoal)
        /\ (Dispatching /\ queue' = <<>> /\ IsSome(RoutedBanner)
                /\ LegendaryLayout(Unwrap(RoutedBanner)))
            => banner' = Unwrap(RoutedBanner) ]_vars

\* C9 witness: a URL with a truncated banner and a goal was routed onto
\* observations: the goal is the URL's, the banner is not the default one
\* the model started with.
C9_Witness ==
    /\ Settled
    /\ ~IsSome(RoutedBanner)
    /\ IsSome(Unwrap(routed).url.banner)
    /\ IsSome(RoutedGoal)
    /\ goal = Unwrap(RoutedGoal)
    /\ banner # DefaultBanner
    /\ Unwrap(routed).observations > 0

\* C10 (budget overshoot bound): inside a Run, the batch that ran last was
\* started with less than the budget elapsed, so the elapsed time is below
\* the budget plus that batch's duration, also when the loop ends.
C10_OvershootBound == pc = "loop" => elapsed - lastBatch < Budget

\* C10 witness: the loop is about to end over the budget after two batches.
C10_Witness ==
    /\ pc = "loop"
    /\ batches = 2
    /\ elapsed > Budget
    /\ lastBatch > 0

\* the ordinal of a converted value, by the target type
AsU8(target, x) == IF target = "Color" THEN ColorAsU8(x) ELSE PoolAsU8(x)

\* C11 (stable ordinal mapping): try_from(c as u8) is Ok(c) for every Color
\* and every Pool, the ordinals 0..3 of Pool are Focus, Fivestar, Fourstar,
\* Threestar, every u8 from 4 up is rejected, and an accepted Color indexes
\* the banner's four focus sizes.
C11_StableOrdinals ==
    /\ \A c \in Colors : ColorTryFrom(ColorAsU8(c)) = Ok(c)
    /\ \A p \in Pools : PoolTryFrom(PoolAsU8(p)) = Ok(p)
    /\ <<PoolTryFrom(0), PoolTryFrom(1), PoolTryFrom(2), PoolTryFrom(3)>>
           = <<Ok(Focus), Ok(Fivestar), Ok(Fourstar), Ok(Threestar)>>
    /\ IsSome(conversion) =>
          LET call == Unwrap(conversion)
          IN  /\ call.value >= 4 => call.result = Err
              /\ call.value < 4 =>
                    /\ call.result # Err
                    /\ AsU8(call.target, call.result[1]) = call.value
              /\ (call.target = "Color" /\ call.result # Err) =>
                    ColorAsU8(call.result[1]) + 1 \in DOMAIN banner.focus_sizes

\* C11 witness: the largest u8 was offered as a Color and rejected.
C11_Witness ==
    /\ IsSome(conversion)
    /\ Unwrap(conversion).target = "Color"
    /\ Unwrap(conversion).value = MaxU8
    /\ Unwrap(conversion).result = Err

\* C12 (batch doubling): the batch after k batches has 100 * 2^k trials, all
\* recorded; after it the Run has recorded 100 * (2^(k+1) - 1) trials; and a
\* Run on an available goal returns after at least one batch.
C12_BatchDoubling ==
    [][ /\ RunBatch =>
              /\ limit = FirstLimit * 2 ^ batches
              /\ trials' - trials = limit
              /\ Total(data') - Total(data) = limit
              /\ recorded' = FirstLimit * (2 ^ batches' - 1)
        /\ RunReturn =>
              /\ batches >= 1
              /\ recorded = FirstLimit * (2 ^ batches - 1) ]_vars

\* C12 witness: the clock is over the budget after three batches of 100, 200
\* and 400 trials.
C12_Witness ==
    /\ pc = "loop"
    /\ ~(elapsed < Budget)
    /\ batches = 3
    /\ recorded = 7 * FirstLimit
    /\ limit = 8 * FirstLimit

\* C13 (Run termination): a Run whose goal is not available returns at once,
\* and a Run inside the batch loop eventually leaves it.
C13_RunTerminates ==
    /\ [][(Run /\ ~is_available(goal', banner)) => pc' = "idle"]_vars
    /\ (pc = "loop") ~> (pc = "idle")

\* C13 witness: a Run has returned after three batches.
C13_Witness ==
    /\ Idle
    /\ sim = None
    /\ runs = 1
    /\ trials = 7 * FirstLimit

\* C14 (preset re-derivation order in Run): while a Run executes trials, the
\* simulator's goal is the model's goal, it is what its preset gives on the
\* current banner (for a preset other than Custom: a part for each of the
\* preset's colors that the banner offers now), and it is available.
C14_RederivedBeforeTrials ==
    IsSome(sim) =>
        /\ Unwrap(sim) = Config
        /\ goal = set_preset(goal, banner, goal.preset)
        /\ goal.preset # "Custom" =>
              /\ goal.goals = PartsOn(banner, PresetColors(goal.preset))
              /\ \A i \in 1..Len(goal.goals) :
                    FocusSize(banner, goal.goals[i].unit_color) > 0
        /\ is_available(goal, banner)

\* C14 witness: the red focus units were taken off the banner after the goal
\* was derived for all four colors; the Run counts trials for a goal without
\* the red part.
C14_Witness ==
    /\ IsSome(sim)
    /\ batches > 0
    /\ goal.preset = "AnyFocus"
    /\ FocusSize(banner, Red) = 0
    /\ Len(goal.goals) = 3
    /\ \A i \in 1..Len(goal.goals) : goal.goals[i].unit_color # Red

\* the page routes sends for a URL
PageOf(url) ==
    CASE url.path1 = "help" -> "Help"
      [] url.path1 = "changelog" -> "Changelog"
      [] OTHER -> "Main"

\* b as BannerRateChange leaves it
Collapsed(b) ==
    IF b.starting_rates = Legendary THEN [b EXCEPT !.focus_sizes = LegendarySizes] ELSE b

\* the routed URL carries a banner and a goal that decode
BothRouted == IsSome(routed) /\ IsSome(RoutedBanner) /\ IsSome(RoutedGoal)

\* C15 (route processing is order-insensitive): for a URL with a valid banner
\* and a valid goal, routes sends one Multiple of PageChange, BannerSet and
\* GoalSet in this order; Multiple forwards its messages once each, in
\* order, behind those waiting; and whether BannerSet's five messages are
\* processed before or after GoalSet, the dispatch ends with the URL's page,
\* the URL's banner (as BannerRateChange leaves it), the URL's goal and an
\* empty histogram.
C15_OrderInsensitive ==
    /\ [][ /\ (BothRouted' /\ routed' # routed) =>
                 queue' = <<MsgMultiple(<<MsgPageChange(PageOf(Unwrap(routed').url)),
                                          MsgBannerSet(Unwrap(RoutedBanner')),
                                          MsgGoalSet(Unwrap(RoutedGoal'))>>)>>
           /\ Multiple => queue' = Tail(queue) \o Head(queue).messages ]_vars
    /\ []((Settled /\ BothRouted) =>
              /\ curr_page = PageOf(Unwrap(routed).url)
              /\ banner = Collapsed(Unwrap(RoutedBanner))
              /\ goal = Unwrap(RoutedGoal)
              /\ data = <<>>)

\* C15 witness: BannerSet's messages were processed before GoalSet (GoalSet
\* is the call of update that emptied the queue), onto recorded trials.
C15_Witness ==
    /\ Settled
    /\ BothRouted
    /\ IsSome(last)
    /\ Unwrap(last).type = "GoalSet"
    /\ Unwrap(routed).observations > 0
    /\ banner = Unwrap(RoutedBanner)
    /\ banner # DefaultBanner
    /\ goal = Unwrap(RoutedGoal)
    /\ goal # DefaultGoal

\* the message of the update call that made the step
Handled == Unwrap(last')

\* C16 (unavailable preset is rejected): GoalPresetChange leaves the banner
\* as it is and the histogram empty; with a preset that is not available on
\* the banner it leaves the goal (parts, kind, stored preset) as it is; with
\* an available one the goal becomes what the preset gives on the banner.
C16_UnavailablePresetRejected ==
    [][ GoalPresetChange =>
          /\ banner' = banner
          /\ data' = <<>>
          /\ ~preset_is_available(Handled.preset, banner) => goal' = goal
          /\ preset_is_available(Handled.preset, banner) =>
                /\ goal' = set_preset(goal, banner, Handled.preset)
                /\ goal'.preset = Handled.preset
                /\ Handled.preset # "Custom" =>
                      goal'.goals = PartsOn(banner, PresetColors(Handled.preset)) ]_vars

\* C16 witness: the preset for red focus units was asked for on a banner
\* without any; the goal still is of another preset and has its parts.
C16_Witness ==
    /\ Idle
    /\ queue = <<>>
    /\ IsSome(last)
    /\ Unwrap(last) = MsgGoalPresetChange("RedFocus")
    /\ ~preset_is_available("RedFocus", banner)
    /\ goal.preset = "AllFocus"
    /\ goal.goals # <<>>

\* the parts other than the one at `index` (counted from 0) are the same
SameButAt(index) ==
    /\ Len(goal'.goals) = Len(goal.goals)
    /\ \A j \in 1..Len(goal.goals) : j # index + 1 => goal'.goals[j] = goal.goals[j]

\* nothing but the parts of the goal changes
OnlyParts ==
    /\ banner' = banner
    /\ curr_page' = curr_page
    /\ goal'.kind = goal.kind
    /\ goal'.preset = goal.preset

\* C17 (goal part edits are local): with an index below the number of parts,
\* GoalPartColorChange changes the color of that part only,
\* GoalPartQuantityChange with a quantity above 0 the copies of that part
\* only, with a quantity of 0 it removes that part and keeps the others in
\* order; GoalPartAdd appends one part; none changes the banner, the kind,
\* the stored preset or the page.
C17_PartEditsLocal ==
    [][ /\ (GoalPartColorChange /\ Handled.index < Len(goal.goals)) =>
              /\ OnlyParts
              /\ SameButAt(Handled.index)
              /\ goal'.goals[Handled.index + 1] =
                    GoalPart(Handled.color, goal.goals[Handled.index + 1].num_copies)
        /\ (GoalPartQuantityChange /\ Handled.index < Len(goal.goals)
                /\ Handled.quantity > 0) =>
              /\ OnlyParts
              /\ SameButAt(Handled.index)
              /\ goal'.goals[Handled.index + 1] =
                    GoalPart(goal.goals[Handled.index + 1].unit_color, Handled.quantity)
        /\ (GoalPartQuantityChange /\ Handled.index < Len(goal.goals)
                /\ Handled.quantity = 0) =>
              /\ OnlyParts
              /\ Len(goal'.goals) = Len(goal.goals) - 1
              /\ \A j \in 1..Len(goal'.goals) :
                    goal'.goals[j] = goal.goals[IF j <= Handled.index THEN j ELSE j + 1]
        /\ GoalPartAdd =>
              /\ OnlyParts
              /\ Len(goal'.goals) = Len(goal.goals) + 1
              /\ \A j \in 1..Len(goal.goals) : goal'.goals[j] = goal.goals[j]
              /\ goal'.goals[Len(goal'.goals)] = GoalPart(Handled.color, Handled.quantity)
      ]_vars

\* C17 witness: the second of the four parts of the default goal was removed;
\* the first, third and fourth are left, in this order.
C17_Witness ==
    /\ IsSome(last)
    /\ Unwrap(last) = MsgGoalPartQuantityChange(1, 0)
    /\ ~panicked
    /\ goal.goals = <<GoalPart(Red, 1), GoalPart(Green, 1), GoalPart(Colorless, 1)>>

\* C18 (non-configuration messages): Null, Multiple, BannerSet itself,
\* PageChange and Permalink leave banner, goal and histogram as they are;
\* PageChange sets the page to the one it carries.
C18_NonConfigFrame ==
    [][ /\ (Null \/ Multiple \/ BannerSet \/ PageChange \/ Permalink) =>
              (banner' = banner /\ goal' = goal /\ data' = data /\ trials' = trials)
        /\ PageChange => curr_page' = Head(queue).page
        /\ (Null \/ Multiple \/ BannerSet \/ Permalink) => curr_page' = curr_page ]_vars

\* C18 witness: the help page is shown and the trials recorded before are
\* still in the histogram.
C18_Witness ==
    /\ Idle
    /\ queue = <<>>
    /\ IsSome(routed)
    /\ curr_page = "Help"
    /\ Unwrap(routed).observations > 0
    /\ Total(data) = Unwrap(routed).observations

====
